---- MODULE Spec2Model ----
(***************************************************************************)
(* Model of the Scraping class of fflogs-study-project                     *)
(* (src/src/fflogs-study-project/data/data_scraping.py).                   *)
(*                                                                         *)
(* Strings are sequences of one-character strings, so that concatenation,  *)
(* str.replace, re.findall, str.strip and sorted() are computed character  *)
(* by character as Python computes them.                                   *)
(***************************************************************************)
EXTENDS Integers, Sequences, FiniteSets, TLC

(* ------------------------------ bounds -------------------------------- *)

\* longest log list of a batch run (Spec)
MaxLogs == 3
\* longest log list of a composition run (SpecComp)
MaxChecks == 2
\* most composition entries on one summary page (SpecComp)
MaxEntries == 2
\* longest log list of a navigation run (SpecUrl)
MaxNavLogs == 2

(* ------------------------- string literals ---------------------------- *)

Quote == "\""

\* "#boss=-2"
BossAll == <<"#","b","o","s","s","=","-","2">>
\* "&wipes=1"
WipesOnly == <<"&","w","i","p","e","s","=","1">>
\* "&wipes=2"
KillsOnly == <<"&","w","i","p","e","s","=","2">>
\* "&type=damage-done"
DamageDone == <<"&","t","y","p","e","=","d","a","m","a","g","e","-","d","o","n","e">>
\* "&type=healing"
Healing == <<"&","t","y","p","e","=","h","e","a","l","i","n","g">>

UpperCase == <<"A","B","C","D","E","F","G","H","I","J","K","L","M","N","O","P","Q","R","S","T","U","V","W","X","Y","Z">>
LowerCase == <<"a","b","c","d","e","f","g","h","i","j","k","l","m","n","o","p","q","r","s","t","u","v","w","x","y","z">>

\* the character class [a-zA-Z] of the regular expression in check_comp
Letters == {UpperCase[i] : i \in 1..26} \cup {LowerCase[i] : i \in 1..26}

\* code point of a letter, the order sorted() compares strings by
Ord(c) ==
    IF \E i \in 1..26 : UpperCase[i] = c
    THEN 64 + (CHOOSE i \in 1..26 : UpperCase[i] = c)
    ELSE IF \E i \in 1..26 : LowerCase[i] = c
    THEN 96 + (CHOOSE i \in 1..26 : LowerCase[i] = c)
    ELSE 0

(* ------------------------- string operations -------------------------- *)

\* sub occurs in s at position p
MatchAt(s, sub, p) ==
    /\ p >= 1
    /\ p + Len(sub) - 1 <= Len(s)
    /\ \A i \in 1..Len(sub) : s[p + i - 1] = sub[i]

\* least position at or after p where sub occurs in s (0 when none)
NextMatch(s, sub, p) ==
    IF \E q \in p..Len(s) : MatchAt(s, sub, q)
    THEN CHOOSE q \in p..Len(s) :
            MatchAt(s, sub, q) /\ \A r \in p..(q - 1) : ~MatchAt(s, sub, r)
    ELSE 0

RECURSIVE ReplaceFrom(_, _, _, _)
ReplaceFrom(s, old, new, p) ==
    LET q == NextMatch(s, old, p)
    IN  IF q = 0 THEN SubSeq(s, p, Len(s))
        ELSE SubSeq(s, p, q - 1) \o new \o ReplaceFrom(s, old, new, q + Len(old))

\* Python's s.replace(old, new): every non-overlapping occurrence, left to right
Replace(s, old, new) == ReplaceFrom(s, old, new, 1)

\* first position at or after p that holds no letter (Len(s) + 1 when none)
LettersEnd(s, p) ==
    CHOOSE r \in p..(Len(s) + 1) :
        /\ r = Len(s) + 1 \/ s[r] \notin Letters
        /\ \A i \in p..(r - 1) : s[i] \in Letters

\* the non-overlapping matches of "[a-zA-Z]*" in s that start at or after p
FindAllFrom(s, p) ==
    LET from[b \in 1..(Len(s) + 2)] ==
            LET q == NextMatch(s, <<Quote>>, b)
                r == LettersEnd(s, q + 1)
            IN  IF q = 0 THEN <<>>
                ELSE IF r <= Len(s) /\ s[r] = Quote
                THEN <<SubSeq(s, q, r)>> \o from[r + 1]
                ELSE from[q + 1]
    IN  from[p]

\* re.findall("\"[a-zA-Z]*\"", s): the non-overlapping matches, left to right
FindAll(s) == FindAllFrom(s, 1)

RECURSIVE Strip(_, _)
\* Python's s.strip(ch)
Strip(s, ch) ==
    IF Len(s) = 0 THEN s
    ELSE IF s[1] = ch THEN Strip(Tail(s), ch)
    ELSE IF s[Len(s)] = ch THEN Strip(SubSeq(s, 1, Len(s) - 1), ch)
    ELSE s

RECURSIVE StrLess(_, _)
\* Python's a < b on strings
StrLess(a, b) ==
    IF Len(b) = 0 THEN FALSE
    ELSE IF Len(a) = 0 THEN TRUE
    ELSE IF Ord(a[1]) # Ord(b[1]) THEN Ord(a[1]) < Ord(b[1])
    ELSE StrLess(Tail(a), Tail(b))

RECURSIVE Insert(_, _)
Insert(x, s) ==
    IF Len(s) = 0 THEN <<x>>
    ELSE IF StrLess(x, s[1]) THEN <<x>> \o s
    ELSE <<s[1]>> \o Insert(x, Tail(s))

RECURSIVE Sorted(_)
\* Python's sorted(s) on a sequence of strings
Sorted(s) == IF Len(s) = 0 THEN <<>> ELSE Insert(s[1], Sorted(Tail(s)))

(* ------------------------------ inputs -------------------------------- *)

\* "https://www.fflogs.com/reports/a"
ReportBase == <<"h","t","t","p","s",":","/","/","w","w","w",".","f","f","l","o","g","s",".","c","o","m","/","r","e","p","o","r","t","s","/","a">>
Digits == <<"1","2","3","4","5","6","7","8","9">>

\* the k-th report url of a log list
LogUrl(k) == ReportBase \o <<Digits[k]>>

\* url fragments a report url copied from the browser may carry
\* "#type=damage-done"
FragDamage == <<"#","t","y","p","e","=","d","a","m","a","g","e","-","d","o","n","e">>
\* "#fight=3&type=damage-done"
FragFightDamage == <<"#","f","i","g","h","t","=","3","&","t","y","p","e","=","d","a","m","a","g","e","-","d","o","n","e">>
\* "#fight=3&type=healing"
FragFightHealing == <<"#","f","i","g","h","t","=","3","&","t","y","p","e","=","h","e","a","l","i","n","g">>

\* log urls as a user may enter them
LogUrls ==
    {ReportBase, ReportBase \o FragDamage, ReportBase \o FragFightDamage,
     ReportBase \o FragFightHealing}

\* values of the `type` argument of the constructor (stored unchecked)
EncTypes == {"wipes", "kills", "all", "clears"}

Paladin == <<"P","a","l","a","d","i","n">>
Warrior == <<"W","a","r","r","i","o","r">>
Jobs == {Paladin, Warrior}

\* the job lists of the composition tables with at most n entries
CompsUpTo(n) == UNION {[1..m -> Jobs] : m \in 0..n}

\* the composition tables a batch run meets: none, two orders of one
\* composition, and a different one of the same size
BatchComps == {<<>>, <<Paladin, Warrior>>, <<Warrior, Paladin>>, <<Paladin, Paladin>>}

\* "<td class=\"composition-entry\"><a class=\""
EntryOpen == <<"<","t","d"," ","c","l","a","s","s","=","\"","c","o","m","p","o","s","i","t","i","o","n","-","e","n","t","r","y","\"",">","<","a"," ","c","l","a","s","s","=","\"">>
\* "\">x</a></td>"
EntryClose == <<"\"",">","x","<","/","a",">","<","/","t","d",">">>

RECURSIVE JoinEntries(_)
JoinEntries(jobs) ==
    IF Len(jobs) = 0 THEN <<>>
    ELSE EntryOpen \o jobs[1] \o EntryClose
         \o (IF Len(jobs) > 1 THEN <<",", " ">> ELSE <<>>)
         \o JoinEntries(Tail(jobs))

\* str(find_all(class_="composition-entry")) of a summary page whose
\* composition table lists `jobs`
PageSource(jobs) == <<"[">> \o JoinEntries(jobs) \o <<"]">>

\* "&start=0"
PageIndex == <<"&","s","t","a","r","t","=","0">>

\* what the site may append to the address after a navigation
SiteSuffixes == {<<>>, PageIndex}

(* ------------------------------- state -------------------------------- *)

VARIABLES
    logs,         \* self.logs
    enc_type,     \* self.enc_type
    comp,         \* self.comp
    site,         \* site[k]: jobs of the composition table of the k-th log
    current_url,  \* self.driver.current_url
    pc,           \* next statement of parse_logs, "done" or "raised"
    idx,          \* number of logs the for loop has taken
    counter,      \* local `counter` of parse_logs
    comp_html,    \* value returned by get_comp, argument of check_comp
    exc,          \* the exception propagating out of parse_logs
    requested,    \* url of the last driver.get call
    trace,        \* driver operations issued so far
    printed,      \* progress messages printed so far
    seen,         \* seen[k]: composition check_comp parsed for the k-th log
    ret           \* ret[k]: value check_comp returned for the k-th log

vars == <<logs, enc_type, comp, site, current_url, pc, idx, counter,
          comp_html, exc, requested, trace, printed, seen, ret>>

Ev(op, k, ok) == [op |-> op, log |-> k, ok |-> ok]

\* __init__: fields after construction; the browser shows no page yet
Constructed ==
    /\ comp = <<>>
    /\ current_url = <<>>
    /\ pc = "for"
    /\ idx = 0
    /\ counter = 1
    /\ comp_html = <<>>
    /\ exc = "none"
    /\ requested = <<>>
    /\ trace = <<>>
    /\ printed = <<>>
    /\ seen = <<>>
    /\ ret = <<>>

\* a batch run: any list of at most MaxLogs logs, any filter
Init ==
    /\ \E n \in 0..MaxLogs :
        /\ logs = [k \in 1..n |-> LogUrl(k)]
        /\ site \in [1..n -> BatchComps]
    /\ enc_type \in EncTypes
    /\ Constructed

\* a composition run: every composition table of at most MaxEntries entries
InitComp ==
    /\ \E n \in 0..MaxChecks :
        /\ logs = [k \in 1..n |-> LogUrl(k)]
        /\ site \in [1..n -> CompsUpTo(MaxEntries)]
    /\ enc_type = "all"
    /\ Constructed

\* a navigation run: at most MaxNavLogs logs, any entered url, any filter
InitUrl ==
    /\ \E n \in 1..MaxNavLogs :
        /\ logs \in [1..n -> LogUrls]
        /\ site = [k \in 1..n |-> IF k = 1 THEN <<Paladin>> ELSE <<Warrior>>]
    /\ enc_type \in EncTypes
    /\ Constructed

\* a batch run over at most MaxNavLogs logs, any filter
InitLive ==
    /\ \E n \in 0..MaxNavLogs :
        /\ logs = [k \in 1..n |-> LogUrl(k)]
        /\ site \in [1..n -> BatchComps]
    /\ enc_type \in EncTypes
    /\ Constructed

(* ----------------------------- operations ----------------------------- *)

\* mutant of SummaryUrl: the two filter codes exchanged
SummaryUrlSwapped(log_url, type) ==
    LET url == log_url \o BossAll
    IN  IF type = "wipes" THEN url \o KillsOnly
        ELSE IF type = "kills" THEN url \o WipesOnly
        ELSE url

\* to_summary: the url it opens
SummaryUrl(log_url, type) ==
    LET url == log_url \o BossAll
    IN  IF type = "wipes" THEN url \o WipesOnly
        ELSE IF type = "kills" THEN url \o KillsOnly
        ELSE url

\* to_damage_dealt: the url it opens
DamageUrl(sum_url) == sum_url \o DamageDone

\* mutant of HealingUrl: the healing parameter appended, not substituted
HealingUrlAppend(dd_url) == dd_url \o Healing

\* mutant of HealingUrl: the pattern misses its leading "&"
HealingUrlNoAmp(dd_url) == Replace(dd_url, Tail(DamageDone), Healing)

\* to_healing_done: the url it opens
HealingUrl(dd_url) == Replace(dd_url, DamageDone, Healing)

\* check_comp, line 175: the quotes are stripped from every token found
StripAll(found) == [i \in 1..Len(found) |-> Strip(found[i], Quote)]

\* check_comp: the composition parsed from the html string
ParseComp(html) == StripAll(FindAll(html))

\* mutant of CompMismatch: an observed part of the reference is accepted
CompMismatchPart(self_comp, c) ==
    /\ Len(self_comp) > 0
    /\ \E i \in 1..Len(c) : \A j \in 1..Len(self_comp) : c[i] # self_comp[j]

\* mutant of CompMismatch: only the sizes are compared
CompMismatchLen(self_comp, c) ==
    Len(self_comp) > 0 /\ Len(self_comp) # Len(c)

\* mutant of CompMismatch: the tuples are compared unsorted
CompMismatchUnsorted(self_comp, c) ==
    Len(self_comp) > 0 /\ self_comp # c

\* mutant of CompMismatch: the tuples are compared as sets
CompMismatchSet(self_comp, c) ==
    /\ Len(self_comp) > 0
    /\ {self_comp[i] : i \in 1..Len(self_comp)} # {c[i] : i \in 1..Len(c)}

\* mutant of CompMismatch: every composition is accepted
CompMismatchNever(self_comp, c) == FALSE

\* mutant of CompMismatch: an empty observed composition is never a mismatch
CompMismatchObserved(self_comp, c) ==
    Len(self_comp) > 0 /\ Len(c) > 0 /\ Sorted(self_comp) # Sorted(c)

\* check_comp: the condition under which it returns False
CompMismatch(self_comp, c) ==
    Len(self_comp) > 0 /\ Sorted(self_comp) # Sorted(c)

\* self.driver.get(url) of the k-th log: the page loads, or the call raises
DriverGet(url, op, k, next) ==
    /\ requested' = url
    /\ \/ /\ current_url' \in {url \o s : s \in SiteSuffixes}
          /\ trace' = Append(trace, Ev(op, k, TRUE))
          /\ pc' = next
          /\ exc' = "none"
       \/ /\ current_url' = current_url
          /\ trace' = Append(trace, Ev(op, k, FALSE))
          /\ pc' = "raised"
          /\ exc' = "WebDriverException"

\* parse_logs, lines 97-99: the loop takes the next log and opens its summary
to_summary ==
    /\ pc = "for"
    /\ idx < Len(logs)
    /\ idx' = idx + 1
    /\ printed' = Append(printed, [msg |-> "begin", counter |-> counter, max |-> Len(logs)])
    /\ DriverGet(SummaryUrl(logs[idx + 1], enc_type), "get_summary", idx + 1, "get_comp")
    /\ UNCHANGED <<logs, enc_type, comp, site, counter, comp_html, seen, ret>>

\* mutant of get_comp: the timeout is caught and the log is left out
get_comp_caught ==
    /\ pc = "get_comp"
    /\ \/ /\ trace' = Append(trace, Ev("wait_comp", idx, TRUE))
          /\ comp_html' = PageSource(site[idx])
          /\ pc' = "check_comp"
       \/ /\ trace' = Append(trace, Ev("wait_comp", idx, FALSE))
          /\ comp_html' = comp_html
          /\ pc' = "for"
    /\ exc' = "none"
    /\ UNCHANGED <<logs, enc_type, comp, site, current_url, idx, counter,
                   requested, printed, seen, ret>>

\* mutant of get_comp: the wait has no timeout and returns only when a
\* composition entry is on the page
get_comp_blocks ==
    /\ pc = "get_comp"
    /\ Len(site[idx]) > 0
    /\ trace' = Append(trace, Ev("wait_comp", idx, TRUE))
    /\ comp_html' = PageSource(site[idx])
    /\ pc' = "check_comp"
    /\ exc' = "none"
    /\ UNCHANGED <<logs, enc_type, comp, site, current_url, idx, counter,
                   requested, printed, seen, ret>>

\* get_comp: wait for the composition table, then read the page
get_comp ==
    /\ pc = "get_comp"
    /\ \/ /\ trace' = Append(trace, Ev("wait_comp", idx, TRUE))
          /\ comp_html' = PageSource(site[idx])
          /\ pc' = "check_comp"
          /\ exc' = "none"
       \/ /\ trace' = Append(trace, Ev("wait_comp", idx, FALSE))
          /\ comp_html' = comp_html
          /\ pc' = "raised"
          /\ exc' = "TimeoutException"
    /\ UNCHANGED <<logs, enc_type, comp, site, current_url, idx, counter,
                   requested, printed, seen, ret>>

\* mutant of Skipped: the driver is quit on a mismatch
SkippedQuits ==
    /\ printed' = Append(printed, [msg |-> "skipped", counter |-> counter, max |-> Len(logs)])
    /\ trace' = Append(trace, Ev("quit", 0, TRUE))
    /\ pc' = "for"

\* mutant of Skipped: the `continue` is missing
SkippedFallsThrough ==
    /\ printed' = Append(printed, [msg |-> "skipped", counter |-> counter, max |-> Len(logs)])
    /\ trace' = trace
    /\ pc' = "to_damage_dealt"

\* parse_logs, lines 100-102: check_comp returned False
Skipped ==
    /\ printed' = Append(printed, [msg |-> "skipped", counter |-> counter, max |-> Len(logs)])
    /\ trace' = trace
    /\ pc' = "for"

\* mutant of Accepted: the healing tab is taken before the damage tab
AcceptedHealingFirst ==
    /\ printed' = printed
    /\ trace' = trace
    /\ pc' = "to_healing_done"

\* parse_logs, line 100: check_comp returned True
Accepted ==
    /\ printed' = printed
    /\ trace' = trace
    /\ pc' = "to_damage_dealt"

\* check_comp, called with the value of get_comp
check_comp ==
    /\ pc = "check_comp"
    /\ \E found \in {FindAll(comp_html)} : \E c \in {StripAll(found)} :
           /\ seen' = Append(seen, c)
           /\ IF CompMismatch(comp, c)
              THEN /\ comp' = comp
                   /\ ret' = Append(ret, FALSE)
                   /\ Skipped
              ELSE /\ comp' = c
                   /\ ret' = Append(ret, TRUE)
                   /\ Accepted
    /\ comp_html' = <<>>
    /\ UNCHANGED <<logs, enc_type, site, current_url, idx, counter, exc,
                   requested>>

to_damage_dealt ==
    /\ pc = "to_damage_dealt"
    /\ DriverGet(DamageUrl(current_url), "get_damage", idx, "get_damage_dealt")
    /\ UNCHANGED <<logs, enc_type, comp, site, idx, counter, comp_html,
                   printed, seen, ret>>

\* mutant of Export: a stale element is retried once
ExportRetries(wait, keys, k, cont) ==
    \/ /\ trace' = trace \o <<Ev(wait, k, TRUE), Ev(keys, k, TRUE)>>
       /\ exc' = "none"
       /\ cont
    \/ /\ trace' = Append(trace, Ev(wait, k, FALSE))
       /\ exc' = "TimeoutException"
       /\ pc' = "raised"
       /\ UNCHANGED <<printed, counter>>
    \/ /\ trace' = trace \o <<Ev(wait, k, TRUE), Ev(keys, k, FALSE), Ev(keys, k, TRUE)>>
       /\ exc' = "none"
       /\ cont
    \/ /\ trace' = trace \o <<Ev(wait, k, TRUE), Ev(keys, k, FALSE), Ev(keys, k, FALSE)>>
       /\ exc' = "StaleElementReferenceException"
       /\ pc' = "raised"
       /\ UNCHANGED <<printed, counter>>

\* wait_until(...).send_keys(Keys.ENTER) on the csv button of the k-th log
Export(wait, keys, k, cont) ==
    \/ /\ trace' = trace \o <<Ev(wait, k, TRUE), Ev(keys, k, TRUE)>>
       /\ exc' = "none"
       /\ cont
    \/ /\ trace' = Append(trace, Ev(wait, k, FALSE))
       /\ exc' = "TimeoutException"
       /\ pc' = "raised"
       /\ UNCHANGED <<printed, counter>>
    \/ /\ trace' = trace \o <<Ev(wait, k, TRUE), Ev(keys, k, FALSE)>>
       /\ exc' = "StaleElementReferenceException"
       /\ pc' = "raised"
       /\ UNCHANGED <<printed, counter>>

get_damage_dealt ==
    /\ pc = "get_damage_dealt"
    /\ Export("wait_damage", "keys_damage", idx,
              pc' = "to_healing_done" /\ UNCHANGED <<printed, counter>>)
    /\ UNCHANGED <<logs, enc_type, comp, site, current_url, idx, comp_html,
                   requested, seen, ret>>

to_healing_done ==
    /\ pc = "to_healing_done"
    /\ DriverGet(HealingUrl(current_url), "get_healing", idx, "get_healing_done")
    /\ UNCHANGED <<logs, enc_type, comp, site, idx, counter, comp_html,
                   printed, seen, ret>>

\* parse_logs, lines 107-108: the log is finished
Finished ==
    /\ printed' = Append(printed, [msg |-> "finished", counter |-> counter, max |-> Len(logs)])
    /\ counter' = counter + 1
    /\ pc' = "for"

get_healing_done ==
    /\ pc = "get_healing_done"
    /\ Export("wait_healing", "keys_healing", idx, Finished)
    /\ UNCHANGED <<logs, enc_type, comp, site, current_url, idx, comp_html,
                   requested, seen, ret>>

\* mutant of quit: an empty list returns without closing the browser
quit_unless_empty ==
    /\ pc = "for"
    /\ idx = Len(logs)
    /\ trace' = IF Len(logs) = 0 THEN trace ELSE Append(trace, Ev("quit", 0, TRUE))
    /\ pc' = "done"
    /\ UNCHANGED <<logs, enc_type, comp, site, current_url, idx, counter,
                   comp_html, exc, requested, printed, seen, ret>>

\* parse_logs, lines 109-111: the loop is exhausted; quit closes the browser
quit ==
    /\ pc = "for"
    /\ idx = Len(logs)
    /\ trace' = Append(trace, Ev("quit", 0, TRUE))
    /\ pc' = "done"
    /\ UNCHANGED <<logs, enc_type, comp, site, current_url, idx, counter,
                   comp_html, exc, requested, printed, seen, ret>>

\* parse_logs
Next ==
    \/ to_summary
    \/ get_comp
    \/ check_comp
    \/ to_damage_dealt
    \/ get_damage_dealt
    \/ to_healing_done
    \/ get_healing_done
    \/ quit

Spec == Init /\ [][Next]_vars
SpecComp == InitComp /\ [][Next]_vars
SpecUrl == InitUrl /\ [][Next]_vars

\* parse_logs is the only thread of control: whenever a statement can run,
\* one does
SpecLive == InitLive /\ [][Next]_vars /\ WF_vars(Next)

(* ------------------------- the older variant -------------------------- *)
\* fflogs-study-project/data/data_scraping.py: a composition mismatch
\* aborts the batch. The statements of this variant are the pc values
\* that begin with "old_".

\* "https://www.fflogs.com/"
HomeUrl == <<"h","t","t","p","s",":","/","/","w","w","w",".","f","f","l","o","g","s",".","c","o","m","/">>

\* to_summary: the links of the fights to include, indexed by enc_type
fights_xp == <<"click_a1", "click_a2", "click_a3">>

\* what the site makes of the url when a fights link is clicked
ClickSuffixes == {<<>>, BossAll}

\* __init__: the filter as the constructor stores it (-1: never assigned)
EncCode(encounters_type) ==
    IF encounters_type = "wipes" THEN 0
    ELSE IF encounters_type = "kills" THEN 1
    ELSE IF encounters_type = "all" THEN 2
    ELSE -1

\* the object after __init__, or the AttributeError of an invalid filter
InitOld ==
    /\ \E n \in 0..MaxLogs :
        /\ logs = [k \in 1..n |-> LogUrl(k)]
        /\ site \in [1..n -> BatchComps]
    /\ \E encounters_type \in EncTypes :
        /\ enc_type = EncCode(encounters_type)
        /\ IF EncCode(encounters_type) = -1
           THEN pc = "raised" /\ exc = "AttributeError"
           ELSE pc = "old_first_popup" /\ exc = "none"
    /\ comp = <<>>
    /\ current_url = <<>>
    /\ idx = 0
    /\ counter = 1
    /\ comp_html = <<>>
    /\ requested = <<>>
    /\ trace = <<>>
    /\ printed = <<>>
    /\ seen = <<>>
    /\ ret = <<>>

\* driver.get(url), then find_element(...) and an interaction with the
\* element found; after is what the interaction appends to the url
GetThenFind(url, get, find, k, after, next) ==
    /\ requested' = url
    /\ \/ /\ current_url' = current_url
          /\ trace' = Append(trace, Ev(get, k, FALSE))
          /\ pc' = "raised"
          /\ exc' = "WebDriverException"
       \/ /\ current_url' \in {url \o s : s \in SiteSuffixes}
          /\ trace' = trace \o <<Ev(get, k, TRUE), Ev(find, k, FALSE)>>
          /\ pc' = "raised"
          /\ exc' = "NoSuchElementException"
       \/ /\ current_url' \in {url \o s \o a : s \in SiteSuffixes, a \in after}
          /\ trace' = trace \o <<Ev(get, k, TRUE), Ev(find, k, TRUE)>>
          /\ pc' = next
          /\ exc' = "none"

\* parse_logs, line 165
first_popup ==
    /\ pc = "old_first_popup"
    /\ GetThenFind(HomeUrl, "get_home", "keys_popup", 0, {<<>>}, "old_for")
    /\ UNCHANGED <<logs, enc_type, comp, site, idx, counter, comp_html,
                   printed, seen, ret>>

\* parse_logs, lines 167-169: the loop takes the next log and opens it
old_to_summary ==
    /\ pc = "old_for"
    /\ idx < Len(logs)
    /\ idx' = idx + 1
    /\ GetThenFind(logs[idx + 1], "get_log", fights_xp[enc_type + 1], idx + 1,
                   ClickSuffixes, "old_get_comp")
    /\ UNCHANGED <<logs, enc_type, comp, site, counter, comp_html, printed,
                   seen, ret>>

\* get_comp: the page is read as it is, without a wait
old_get_comp ==
    /\ pc = "old_get_comp"
    /\ comp_html' = PageSource(site[idx])
    /\ pc' = "old_check_comp"
    /\ UNCHANGED <<logs, enc_type, comp, site, current_url, idx, counter, exc,
                   requested, trace, printed, seen, ret>>

\* mutant of Aborted: the error is raised with the browser left open
AbortedNoQuit ==
    /\ trace' = trace
    /\ pc' = "raised"
    /\ exc' = "AttributeError"

\* check_comp, lines 121-122: quit, then raise
Aborted ==
    /\ trace' = Append(trace, Ev("quit", 0, TRUE))
    /\ pc' = "raised"
    /\ exc' = "AttributeError"

old_check_comp ==
    /\ pc = "old_check_comp"
    /\ \E found \in {FindAll(comp_html)} : \E c \in {StripAll(found)} :
           /\ seen' = Append(seen, c)
           /\ IF CompMismatch(comp, c)
              THEN /\ comp' = comp
                   /\ ret' = Append(ret, FALSE)
                   /\ Aborted
              ELSE /\ comp' = c
                   /\ ret' = Append(ret, TRUE)
                   /\ trace' = trace
                   /\ pc' = "old_to_damage_dealt"
                   /\ exc' = exc
    /\ comp_html' = <<>>
    /\ UNCHANGED <<logs, enc_type, site, current_url, idx, counter,
                   requested, printed>>

old_to_damage_dealt ==
    /\ pc = "old_to_damage_dealt"
    /\ DriverGet(DamageUrl(current_url), "get_damage", idx, "old_get_damage_dealt")
    /\ UNCHANGED <<logs, enc_type, comp, site, idx, counter, comp_html,
                   printed, seen, ret>>

\* the page source is read and a data frame appended to the list named
ReadTable(op, next) ==
    /\ trace' = Append(trace, Ev(op, idx, TRUE))
    /\ pc' = next
    /\ UNCHANGED <<logs, enc_type, comp, site, current_url, idx, counter,
                   comp_html, exc, requested, printed, seen, ret>>

old_get_damage_dealt ==
    /\ pc = "old_get_damage_dealt"
    /\ ReadTable("read_damage", "old_to_healing_done")

old_to_healing_done ==
    /\ pc = "old_to_healing_done"
    /\ DriverGet(HealingUrl(current_url), "get_healing", idx, "old_get_healing_done")
    /\ UNCHANGED <<logs, enc_type, comp, site, idx, counter, comp_html,
                   printed, seen, ret>>

old_get_healing_done ==
    /\ pc = "old_get_healing_done"
    /\ ReadTable("read_healing", "old_for")

\* parse_logs, line 176: the loop is exhausted
old_quit ==
    /\ pc = "old_for"
    /\ idx = Len(logs)
    /\ trace' = Append(trace, Ev("quit", 0, TRUE))
    /\ pc' = "done"
    /\ UNCHANGED <<logs, enc_type, comp, site, current_url, idx, counter,
                   comp_html, exc, requested, printed, seen, ret>>

\* parse_logs of the older variant
OldNext ==
    \/ first_popup
    \/ old_to_summary
    \/ old_get_comp
    \/ old_check_comp
    \/ old_to_damage_dealt
    \/ old_get_damage_dealt
    \/ old_to_healing_done
    \/ old_get_healing_done
    \/ old_quit

SpecOld == InitOld /\ [][OldNext]_vars

\* a run of either variant over at most MaxNavLogs logs
InitBoth ==
    \/ InitLive
    \/ InitOld /\ Len(logs) <= MaxNavLogs

\* parse_logs of either variant
NextBoth ==
    \/ Next
    \/ OldNext

SpecBoth == InitBoth /\ [][NextBoth]_vars

(* ------------------------------ claims -------------------------------- *)

\* sub is a substring of s
Contains(s, sub) == \E p \in 1..(Len(s) + 1) : MatchAt(s, sub, p)

\* "type=damage-done"
TypeDamageDone == Tail(DamageDone)
\* "type=healing"
TypeHealing == Tail(Healing)

\* positions of the trace that hold operation op of the k-th log
Issued(op, k) == {i \in 1..Len(trace) : trace[i].op = op /\ trace[i].log = k}

\* number of successful operations op of the k-th log
Done(op, k) == Cardinality({i \in Issued(op, k) : trace[i].ok})

\* number of driver.quit() calls
QuitCalls == Cardinality({i \in 1..Len(trace) : trace[i].op = "quit"})

\* number of progress messages of one kind
Messages(m) == Cardinality({i \in 1..Len(printed) : printed[i].msg = m})

LastOp == IF Len(trace) = 0 THEN "none" ELSE trace[Len(trace)].op

Occurrences(t, s) == Cardinality({i \in 1..Len(s) : s[i] = t})

\* a and b are equal as multisets of tokens
BagEq(a, b) ==
    /\ Len(a) = Len(b)
    /\ \A i \in 1..Len(a) : Occurrences(a[i], a) = Occurrences(a[i], b)

\* C1: whenever a fatal error propagates out of parse_logs, quit has been
\* called exactly once before it.
C1_QuitBeforeErrorPropagates == pc = "raised" => QuitCalls = 1

\* C2: a run of parse_logs that raises no error calls quit exactly once, as
\* its last operation, after every log of the list has been processed or
\* skipped; quit is never called earlier nor twice.
C2_QuitOnceAfterLastLog ==
    /\ QuitCalls <= 1
    /\ pc = "done" => QuitCalls = 1
    /\ QuitCalls = 1 =>
        /\ pc = "done"
        /\ exc = "none"
        /\ LastOp = "quit"
        /\ idx = Len(logs)
        /\ \A k \in 1..Len(logs) :
            \/ Len(ret) >= k /\ ~ret[k]
            \/ Done("keys_healing", k) = 1

\* C2 witness: a finished run of two or more logs in which every log after
\* the first was skipped.
C2_AllLaterLogsSkipped ==
    /\ pc = "done"
    /\ Len(logs) >= 2
    /\ ret[1]
    /\ \A k \in 2..Len(logs) : ~ret[k]

\* C3 as stated: once a check_comp call has set the reference, every log
\* accepted afterwards has a composition equal to it as a multiset, and a
\* log whose composition differs leaves the reference unchanged.
C3_ReferenceOnceSet ==
    [][(pc = "check_comp" /\ Len(ret) >= 1) =>
        LET obs == seen'[Len(seen')]
            r == ret'[Len(ret')]
        IN  /\ r => BagEq(obs, comp)
            /\ ~BagEq(obs, comp) => comp' = comp]_vars

\* C3 amended: once the reference is a non-empty composition, every log
\* accepted afterwards has a composition equal to it as a multiset, and a
\* log whose composition differs is rejected and leaves the reference
\* unchanged.
C3_ReferenceOnceNonEmpty ==
    [][(pc = "check_comp" /\ Len(comp) > 0) =>
        LET obs == seen'[Len(seen')]
            r == ret'[Len(ret')]
        IN  /\ r => BagEq(obs, comp)
            /\ ~BagEq(obs, comp) => ~r /\ comp' = comp]_vars

\* C3 witness: after a non-empty first composition, a second log with the
\* same jobs in another order was accepted.
C3_PermutationAccepted ==
    /\ Len(ret) >= 2
    /\ Len(seen[1]) > 0
    /\ seen[2] # seen[1]
    /\ ret[2]

\* C4: if the compositions of the first two logs are equal as multisets,
\* check_comp returns True for the second.
C4_EqualMultisetsAccepted ==
    (Len(ret) >= 2 /\ BagEq(seen[1], seen[2])) => ret[2]

\* C4 witness: the second composition is a different ordering of the first.
C4_ReorderedSecondLog ==
    /\ Len(ret) >= 2
    /\ BagEq(seen[1], seen[2])
    /\ seen[1] # seen[2]

\* C5 as stated: if the compositions of the first two logs differ as
\* multisets, check_comp returns False for the second and the reference is
\* still the first composition.
C5_DifferentMultisetsRejected ==
    (Len(ret) = 2 /\ ~BagEq(seen[1], seen[2])) =>
        ~ret[2] /\ comp = seen[1]

\* C5 amended: if the first composition is non-empty and the second differs
\* from it as a multiset, check_comp returns False for the second and the
\* reference is still the first composition.
C5_DifferentFromNonEmptyRejected ==
    (Len(ret) = 2 /\ Len(seen[1]) > 0 /\ ~BagEq(seen[1], seen[2])) =>
        ~ret[2] /\ comp = seen[1]

\* C5 witness: a second composition of the same jobs with another
\* multiplicity was checked after a non-empty first one.
C5_SameJobsOtherCounts ==
    /\ Len(ret) = 2
    /\ Len(seen[1]) > 0
    /\ ~BagEq(seen[1], seen[2])
    /\ {seen[1][i] : i \in 1..Len(seen[1])} = {seen[2][i] : i \in 1..Len(seen[2])}

\* C6: for a log check_comp rejected, no damage or healing navigation, wait
\* or export is issued, no error is raised, and the loop is back at its head
\* and goes on with the next log, or ends the batch.
C6_RejectedLogSkipped ==
    \A k \in 1..Len(ret) :
        ~ret[k] =>
            /\ \A i \in 1..Len(trace) :
                trace[i].log = k => trace[i].op \in {"get_summary", "wait_comp"}
            /\ idx = k => pc \in {"for", "done"} /\ exc = "none"
            /\ idx > k => Issued("get_summary", k + 1) # {}
            /\ pc = "done" => idx = Len(logs)

\* C6 witness: a log was rejected and the log after it was accepted.
C6_SkipThenNextLog ==
    \E k \in 1..Len(ret) : k < Len(ret) /\ ~ret[k] /\ ret[k + 1]

\* exports, visits and counts at the end of an error-free run
ExportsMatchFirstLog ==
    /\ \A k \in 1..Len(logs) :
        LET n == IF BagEq(seen[k], seen[1]) THEN 1 ELSE 0
        IN  /\ Cardinality(Issued("keys_damage", k)) = n
            /\ Cardinality(Issued("keys_healing", k)) = n
            /\ Done("keys_damage", k) = n
            /\ Done("keys_healing", k) = n
            /\ Cardinality(Issued("get_summary", k)) = 1
    /\ Messages("finished") + Messages("skipped") = Len(logs)
    /\ Messages("begin") = Len(logs)

\* C7 as stated: after an error-free run the logs with exports are exactly
\* those whose composition matches the first log's, each with one damage and
\* one healing export, each log visited once, processed + skipped = length.
C7_ExportsExactlyMatchingLogs == pc = "done" => ExportsMatchFirstLog

\* C7 amended: the same, for runs whose first log shows a non-empty
\* composition (and for the empty list).
C7_ExportsMatchNonEmptyFirstLog ==
    (pc = "done" /\ (Len(logs) >= 1 => Len(seen[1]) > 0)) => ExportsMatchFirstLog

\* C7 witness: three logs, the second differs and is skipped, the third
\* matches the first in another order: 2 processed, 1 skipped.
C7_TwoProcessedOneSkipped ==
    /\ pc = "done"
    /\ Len(logs) = 3
    /\ Len(seen[1]) > 0
    /\ ~ret[2]
    /\ ret[3]
    /\ seen[3] # seen[1]
    /\ Messages("finished") = 2
    /\ Messages("skipped") = 1

\* C8: the url to_summary opens is the log url, then "#boss=-2", then
\* "&wipes=1" for wipes, "&wipes=2" for kills and nothing for all, whatever
\* the rest of the state is.
C8_SummaryUrlGrammar ==
    (LastOp = "get_summary" /\ enc_type \in {"wipes", "kills", "all"}) =>
        LET log == logs[idx]
            rest == SubSeq(requested, Len(log) + 1, Len(requested))
        IN  /\ SubSeq(requested, 1, Len(log)) = log
            /\ enc_type = "wipes" =>
                rest = <<"#","b","o","s","s","=","-","2","&","w","i","p","e","s","=","1">>
            /\ enc_type = "kills" =>
                rest = <<"#","b","o","s","s","=","-","2","&","w","i","p","e","s","=","2">>
            /\ enc_type = "all" =>
                rest = <<"#","b","o","s","s","=","-","2">>

\* C8 witness: the summary of a second log opened with the kills filter,
\* while the browser still showed a page of the first log.
C8_SecondSummaryKills ==
    /\ LastOp = "get_summary"
    /\ enc_type = "kills"
    /\ idx = 2
    /\ current_url # <<>>

\* every "type=damage-done" in u is part of "&type=damage-done"
OnlyAsParameter(u) ==
    \A p \in 1..Len(u) : MatchAt(u, TypeDamageDone, p) => MatchAt(u, DamageDone, p - 1)

\* C9 as stated: the url to_healing_done opens never contains
\* "type=damage-done" and always contains "type=healing".
C9_HealingUrlView ==
    LastOp = "get_healing" =>
        /\ ~Contains(requested, TypeDamageDone)
        /\ Contains(requested, TypeHealing)

\* C9 amended: the url to_healing_done opens always contains "type=healing",
\* and contains no "type=damage-done" provided every "type=damage-done" of
\* the current url it starts from is part of "&type=damage-done".
C9_HealingUrlViewOfParameters ==
    [][pc = "to_healing_done" =>
        /\ Contains(requested', TypeHealing)
        /\ OnlyAsParameter(current_url) => ~Contains(requested', TypeDamageDone)]_vars

\* C9 witness: the healing tab was opened from a current url that carried
\* "&type=damage-done" twice and a parameter the site appended.
C9_HealingFromSiteUrl ==
    /\ LastOp = "get_healing"
    /\ Contains(logs[idx], DamageDone)
    /\ Contains(requested, PageIndex)
    /\ ~Contains(requested, TypeDamageDone)

\* C10 as stated: replacing "&type=healing" by "&type=damage-done" in the
\* healing url gives back the damage url it was derived from.
C10_HealingRoundTrip ==
    [][pc = "to_healing_done" =>
        Replace(requested', Healing, DamageDone) = current_url]_vars

\* C10 amended: the same, provided the damage url does not already contain
\* "&type=healing".
C10_HealingRoundTripNoHealing ==
    [][(pc = "to_healing_done" /\ ~Contains(current_url, Healing)) =>
        Replace(requested', Healing, DamageDone) = current_url]_vars

\* C10 witness: the healing tab of a plain report url was opened with the
\* wipes filter; the healing url differs from the damage url.
C10_HealingOfPlainReport ==
    /\ LastOp = "get_healing"
    /\ logs[idx] = ReportBase
    /\ enc_type = "wipes"
    /\ Contains(requested, Healing)
    /\ Replace(requested, Healing, DamageDone) # requested

PopupOps == {"get_home", "keys_popup"}

\* C11 as stated: with an empty log list nothing is issued to the driver
\* before the single quit.
C11_EmptyListNothingBeforeQuit ==
    Len(logs) = 0 =>
        /\ \A i \in 1..Len(trace) : trace[i].op = "quit"
        /\ pc = "done" => QuitCalls = 1

\* C11 amended: with an empty log list no operation of any log is issued.
\* The newer variant issues nothing before its single quit; the older
\* variant issues the navigation to the home page and the key-send to its
\* pop-up (first_popup), once each, and then its single quit.
C11_EmptyListOnlyPopupBeforeQuit ==
    Len(logs) = 0 =>
        /\ \A i \in 1..Len(trace) :
            trace[i].op \in PopupOps \cup {"quit"} /\ trace[i].log = 0
        /\ pc = "for" => trace = <<>>
        /\ \A op \in PopupOps : Cardinality(Issued(op, 0)) <= 1
        /\ QuitCalls <= 1
        /\ pc = "done" =>
            /\ QuitCalls = 1
            /\ LastOp = "quit"
            /\ \/ Len(trace) = 1
               \/ /\ Len(trace) = 3
                  /\ trace[1] = Ev("get_home", 0, TRUE)
                  /\ trace[2] = Ev("keys_popup", 0, TRUE)

\* C11 witness: the older variant finished an empty list, after the pop-up.
C11_EmptyListOlderVariantDone ==
    /\ Len(logs) = 0
    /\ pc = "done"
    /\ Len(trace) = 3

\* C12 (newer variant): a filter value other than all, kills or wipes never
\* gets as far as a summary navigation.
C12_UnknownFilterNeverNavigates ==
    enc_type \notin {"wipes", "kills", "all"} =>
        \A i \in 1..Len(trace) : trace[i].op # "get_summary"

ExportKeys == {"keys_damage", "keys_healing"}

C14_CompTimeoutAbortsBatch ==
    \A i \in 1..Len(trace) :
        (trace[i].op = "wait_comp" /\ ~trace[i].ok) =>
            /\ i = Len(trace)
            /\ pc = "raised"
            /\ exc = "TimeoutException"
            /\ idx = trace[i].log
            /\ Len(ret) = idx - 1
            /\ Len(seen) = idx - 1
            /\ \A j \in 1..Len(trace) : trace[j].log <= idx

\* C14 witness: the composition table of the second log never appeared,
\* after the first log had been exported.
C14_SecondLogTimesOut ==
    /\ LastOp = "wait_comp"
    /\ ~trace[Len(trace)].ok
    /\ idx = 2
    /\ idx < Len(logs)
    /\ Done("keys_healing", 1) = 1

\* C15 (older variant): a composition that differs from the non-empty
\* stored one makes check_comp quit the driver and raise AttributeError:
\* the run stops at that log, quit was called exactly once and is the last
\* driver operation, and the stored composition is the one stored before.
C15_MismatchQuitsThenRaises ==
    /\ \A k \in 1..Len(ret) :
        /\ ~ret[k] =>
            /\ k = Len(ret)
            /\ k >= 2
            /\ pc = "raised"
            /\ exc = "AttributeError"
            /\ idx = k
            /\ LastOp = "quit"
            /\ QuitCalls = 1
            /\ comp = seen[k - 1]
            /\ \A i \in 1..Len(trace) : trace[i].log <= k
        /\ (k >= 2 /\ Len(seen[k - 1]) > 0 /\ ~BagEq(seen[k - 1], seen[k])) =>
            ~ret[k]
    /\ \A i \in 1..Len(trace) : trace[i].op = "quit" => i = Len(trace)
    /\ (exc = "AttributeError" /\ Len(ret) > 0) => ~ret[Len(ret)]

\* C15 witness: the second of three logs had another composition.
C15_SecondOfThreeAborts ==
    /\ Len(logs) = 3
    /\ Len(ret) = 2
    /\ ~ret[2]
    /\ pc = "raised"
    /\ LastOp = "quit"

\* the driver operations of one accepted log, in order
LogOrder ==
    <<"get_summary", "wait_comp", "get_damage", "wait_damage", "keys_damage",
      "get_healing", "wait_healing", "keys_healing">>

\* the operations of the k-th log, in the order they were issued
OpsOfLog(k) ==
    LET OfLog(e) == e.log = k
    IN  SelectSeq(trace, OfLog)

Exported(op) == Cardinality({i \in 1..Len(trace) : trace[i].op = op /\ trace[i].ok})

\* C16: the operations of every log are a prefix of the fixed order
\* (summary, composition wait and check, damage tab, damage export, healing
\* tab, healing export); logs do not interleave, a log is skipped or
\* finished before the next begins, and the healing exports number at most
\* the damage exports and at most one less.
C16_FixedOrderOneLogAtATime ==
    /\ \A k \in 1..idx :
        LET ops == OpsOfLog(k)
        IN  /\ Len(ops) <= Len(LogOrder)
            /\ \A j \in 1..Len(ops) : ops[j].op = LogOrder[j]
            /\ \A j \in 1..(Len(ops) - 1) : ops[j].ok
            /\ Len(ops) >= 3 => Len(ret) >= k /\ ret[k]
            /\ Len(ret) >= k => Len(ops) >= 2 /\ ops[2].ok
            /\ k < idx =>
                \/ ~ret[k] /\ Len(ops) = 2
                \/ ret[k] /\ Len(ops) = Len(LogOrder) /\ ops[Len(ops)].ok
    /\ \A i, j \in 1..Len(trace) :
        (i < j /\ trace[j].op # "quit") => trace[i].log <= trace[j].log
    /\ \A i \in 1..Len(trace) : trace[i].log <= idx
    /\ Exported("keys_healing") <= Exported("keys_damage")
    /\ Exported("keys_damage") <= Exported("keys_healing") + 1

\* C16 witness: the damage export of a second accepted log is done and its
\* healing export is not: one healing export less than damage exports.
C16_BetweenDamageAndHealing ==
    /\ idx = 2
    /\ pc = "get_healing_done"
    /\ Exported("keys_damage") = 2
    /\ Exported("keys_healing") = 1

\* the "begin" messages, in the order printed
Begins ==
    LET IsBegin(m) == m.msg = "begin"
    IN  SelectSeq(printed, IsBegin)

\* C17: the begin message of the i-th log carries i/n, and every log that
\* was left gets exactly one of "skipped" and "finished".
C17_BeginCarriesListIndex ==
    /\ \A i \in 1..Len(Begins) :
        Begins[i].counter = i /\ Begins[i].max = Len(logs)
    /\ pc = "done" => Messages("skipped") + Messages("finished") = Len(logs)

\* C18 as stated: with a (non-empty) reference set, check_comp leaves the
\* stored reference as it is, whatever it returns.
C18_ReferenceNeverRewritten ==
    [][(pc = "check_comp" /\ Len(comp) > 0) => comp' = comp]_vars

\* C18 amended: with a non-empty reference set, check_comp leaves the stored
\* reference unchanged as a multiset; when it rejects, the stored tuple is
\* untouched; when it accepts, the stored tuple becomes the observed one.
C18_ReferenceSameMultiset ==
    [][(pc = "check_comp" /\ Len(comp) > 0) =>
        LET obs == seen'[Len(seen')]
            r == ret'[Len(ret')]
        IN  /\ BagEq(comp', comp)
            /\ ~r => comp' = comp
            /\ r => comp' = obs]_vars

\* C18 witness: a reordered composition was accepted and is now stored in
\* its own order.
C18_StoredInNewOrder ==
    /\ Len(ret) = 2
    /\ Len(seen[1]) > 0
    /\ ret[2]
    /\ comp = seen[2]
    /\ comp # seen[1]
    /\ BagEq(comp, seen[1])

\* C19: a page with no composition entry gives the empty composition
\* without an error, and check_comp rejects it exactly when the stored
\* reference is non-empty.
C19_EmptyObservation ==
    [][(pc = "check_comp" /\ site[idx] = <<>>) =>
        LET obs == seen'[Len(seen')]
            r == ret'[Len(ret')]
        IN  /\ obs = <<>>
            /\ exc' = "none"
            /\ pc' \in {"for", "to_damage_dealt"}
            /\ r <=> (Len(comp) = 0)
            /\ r => pc' = "to_damage_dealt"
            /\ ~r => pc' = "for"]_vars

\* C19 witness: an empty composition was observed and rejected after a
\* non-empty first one.
C19_EmptyAfterNonEmpty ==
    /\ Len(ret) >= 2
    /\ Len(seen[1]) > 0
    /\ seen[2] = <<>>
    /\ site[2] = <<>>
    /\ ~ret[2]

\* C20: every batch run ends, at batch end with the browser quit, or with an
\* exception.
C20_RunTerminates ==
    <>(\/ pc = "done" /\ QuitCalls = 1
       \/ pc = "raised" /\ exc # "none")

\* C20 witness: a run over two or more logs ended by a time-out of the last
\* wait.
C20_EndedByLastTimeout ==
    /\ pc = "raised"
    /\ exc = "TimeoutException"
    /\ Len(logs) >= 2
    /\ idx = Len(logs)
    /\ LastOp = "wait_healing"

====
